---- MODULE Spec2Model ----
(***************************************************************************)
(* Model of cmd/unfinished_goroutines/unfinished_goroutines.go:            *)
(*   events2gs  (two passes over the trace events),                        *)
(*   unfinishedGs (filter on destroy = 0),                                 *)
(*   uniq (grouping by a digest of name, state and rendered stack, then    *)
(*         sort.Sort by descending group length).                          *)
(*                                                                         *)
(* Strings are TLA+ strings; \o is string concatenation.  The md5 digest   *)
(* of uniq's hash closure is modelled by the byte string that is written   *)
(* into it: md5 is treated as collision free, so two goroutines get the    *)
(* same key exactly when the written byte strings are equal.               *)
(***************************************************************************)
EXTENDS Integers, Sequences, FiniteSets, TLC

VARIABLES events, goroutines, pc, i, j, unfinished, groupsMap, groupsList

vars == <<events, goroutines, pc, i, j, unfinished, groupsMap, groupsList>>

(***************************************************************************)
(* Bounds of the model.                                                    *)
(***************************************************************************)
MaxEvents == 3
MaxGs == 3

(***************************************************************************)
(* Event kinds (internal/trace) used by the inputs, numbered as in the     *)
(* states table.                                                           *)
(***************************************************************************)
EvGoCreate == 13
EvGoEnd == 15
EvGoBlock == 20
EvGoBlockSend == 22

states ==
  [t \in 0..37 |->
     CASE t = 0 -> "EvNone"
       [] t = 1 -> "EvBatch"
       [] t = 2 -> "EvFrequency"
       [] t = 3 -> "EvStack"
       [] t = 4 -> "EvGomaxprocs"
       [] t = 5 -> "EvProcStart"
       [] t = 6 -> "EvProcStop"
       [] t = 7 -> "EvGCStart"
       [] t = 8 -> "EvGCDone"
       [] t = 9 -> "EvGCScanStart"
       [] t = 10 -> "EvGCScanDone"
       [] t = 11 -> "EvGCSweepStart"
       [] t = 12 -> "EvGCSweepDone"
       [] t = 13 -> "EvGoCreate"
       [] t = 14 -> "EvGoStart"
       [] t = 15 -> "EvGoEnd"
       [] t = 16 -> "EvGoStop"
       [] t = 17 -> "EvGoSched"
       [] t = 18 -> "EvGoPreempt"
       [] t = 19 -> "EvGoSleep"
       [] t = 20 -> "EvGoBlock"
       [] t = 21 -> "EvGoUnblock"
       [] t = 22 -> "EvGoBlockSend"
       [] t = 23 -> "EvGoBlockRecv"
       [] t = 24 -> "EvGoBlockSelect"
       [] t = 25 -> "EvGoBlockSync"
       [] t = 26 -> "EvGoBlockCond"
       [] t = 27 -> "EvGoBlockNet"
       [] t = 28 -> "EvGoSysCall"
       [] t = 29 -> "EvGoSysExit"
       [] t = 30 -> "EvGoSysBlock"
       [] t = 31 -> "EvGoWaiting"
       [] t = 32 -> "EvGoInSyscall"
       [] t = 33 -> "EvHeapAlloc"
       [] t = 34 -> "EvNextGC"
       [] t = 35 -> "EvTimerGoroutine"
       [] t = 36 -> "EvFutileWakeup"
       [] t = 37 -> "EvCount"]

(***************************************************************************)
(* trace.Frame, Stack and trace.Event values.                              *)
(***************************************************************************)
Frame(fn) == [Fn |-> fn, File |-> "f", Line |-> 1]

NoStack == <<>>

\* a nil *trace.Event
NilLink == [nil |-> TRUE]

\* a non-nil ev.Link: the linked event, of which events2gs reads only G
LinkTo(g) == [nil |-> FALSE, G |-> g]

Event(type, g, ts, args, stk, link) ==
  [Type |-> type, G |-> g, Ts |-> ts, Args |-> args, Stk |-> stk, Link |-> link]

\* the zero value of Goroutine with the two fields events2gs sets on creation
Goroutine(id, create) ==
  [ID |-> id, ParentID |-> 0, parentStack |-> NoStack, name |-> "",
   create |-> create, destroy |-> 0, lastStack |-> NoStack, lastState |-> ""]

\* Stack.String: frames rendered "Fn [File:Line]" and joined by newlines
RECURSIVE StackString(_)
StackString(s) ==
  IF s = <<>> THEN ""
  ELSE LET n == Len(s)
           frame == s[n]
           line == frame.Fn \o " [" \o frame.File \o ":" \o ToString(frame.Line) \o "]"
       IN  IF n = 1 THEN line
           ELSE StackString(SubSeq(s, 1, n - 1)) \o "\n" \o line

(***************************************************************************)
(* events2gs, pass 1.                                                      *)
(***************************************************************************)
\* CreateGoroutine with the record keyed by the creating goroutine instead of Args[0]
CreateGoroutineByOwner(gs, ev) ==
  LET g == Goroutine(ev.G, ev.Ts)
  IN  [id \in DOMAIN gs \cup {g.ID} |-> IF id = g.ID THEN g ELSE gs[id]]

\* case trace.EvGoCreate: a fresh record keyed by Args[0]
CreateGoroutine(gs, ev) ==
  LET g == Goroutine(ev.Args[1], ev.Ts)
  IN  [id \in DOMAIN gs \cup {g.ID} |-> IF id = g.ID THEN g ELSE gs[id]]

\* case trace.EvGoEnd: g := goroutines[ev.G] is nil when ev.G has no record
EndDerefsNil(gs, ev) == ev.Type = EvGoEnd /\ ev.G \notin DOMAIN gs

EndGoroutine(gs, ev) == [gs EXCEPT ![ev.G].destroy = ev.Ts]

\* the switch on ev.Type
SwitchType(gs, ev) ==
  CASE ev.Type = EvGoCreate -> CreateGoroutine(gs, ev)
    [] ev.Type = EvGoEnd -> EndGoroutine(gs, ev)
    [] OTHER -> gs

\* UpdateLast with the stack recorded only when the event has one
UpdateLastKeepStack(g, ev) ==
  [g EXCEPT !.lastState = states[ev.Type],
            !.lastStack = IF Len(ev.Stk) > 0 THEN ev.Stk ELSE g.lastStack,
            !.name = IF Len(ev.Stk) > 0 /\ g.name = "" THEN ev.Stk[1].Fn ELSE g.name]

\* g.lastState, g.lastStack and, while the name is "", g.name
UpdateLast(g, ev) ==
  [g EXCEPT !.lastState = states[ev.Type],
            !.lastStack = ev.Stk,
            !.name = IF Len(ev.Stk) > 0 /\ g.name = "" THEN ev.Stk[1].Fn ELSE g.name]

\* g, found := goroutines[ev.G]; if !found { continue }
UpdateOwner(gs, ev) ==
  IF ev.G \in DOMAIN gs THEN [gs EXCEPT ![ev.G] = UpdateLast(gs[ev.G], ev)] ELSE gs

Pass1Step ==
  /\ pc = "pass1"
  /\ i <= Len(events)
  /\ ~EndDerefsNil(goroutines, events[i])
  /\ goroutines' = UpdateOwner(SwitchType(goroutines, events[i]), events[i])
  /\ i' = i + 1
  /\ UNCHANGED <<events, pc, j, unfinished, groupsMap, groupsList>>

\* g.destroy = ev.Ts on a nil g: the runtime panics, nothing is written
Pass1Panic ==
  /\ pc = "pass1"
  /\ i <= Len(events)
  /\ EndDerefsNil(goroutines, events[i])
  /\ pc' = "panic"
  /\ UNCHANGED <<events, goroutines, i, j, unfinished, groupsMap, groupsList>>

Pass1Done ==
  /\ pc = "pass1"
  /\ i > Len(events)
  /\ pc' = "pass2"
  /\ UNCHANGED <<events, goroutines, i, j, unfinished, groupsMap, groupsList>>

(***************************************************************************)
(* events2gs, pass 2.                                                      *)
(***************************************************************************)
\* the two continue conditions of the second loop
HasLinkedChild(gs, ev) ==
  /\ ev.Type = EvGoCreate
  /\ ~ev.Link.nil
  /\ ev.Link.G \in DOMAIN gs

\* SetParent that keeps a linkage once it is set
SetParentOnce(child, ev) ==
  IF child.ParentID = 0
  THEN [child EXCEPT !.ParentID = ev.G, !.parentStack = ev.Stk]
  ELSE child

SetParent(child, ev) == [child EXCEPT !.ParentID = ev.G, !.parentStack = ev.Stk]

LinkParent(gs, ev) ==
  IF HasLinkedChild(gs, ev)
  THEN [gs EXCEPT ![ev.Link.G] = SetParent(gs[ev.Link.G], ev)]
  ELSE gs

Pass2Step ==
  /\ pc = "pass2"
  /\ j <= Len(events)
  /\ goroutines' = LinkParent(goroutines, events[j])
  /\ j' = j + 1
  /\ UNCHANGED <<events, pc, i, unfinished, groupsMap, groupsList>>

\* return goroutines
Pass2Done ==
  /\ pc = "pass2"
  /\ j > Len(events)
  /\ pc' = "filter"
  /\ UNCHANGED <<events, goroutines, i, j, unfinished, groupsMap, groupsList>>

(***************************************************************************)
(* unfinishedGs.                                                           *)
(***************************************************************************)
\* if g.destroy != 0 { continue }
IsUnfinished(g) == g.destroy = 0

UnfinishedOf(gs) ==
  [id \in {k \in DOMAIN gs : IsUnfinished(gs[k])} |-> gs[id]]

UnfinishedGs ==
  /\ pc = "filter"
  /\ unfinished' = UnfinishedOf(goroutines)
  /\ pc' = "group"
  /\ UNCHANGED <<events, goroutines, i, j, groupsMap, groupsList>>

(***************************************************************************)
(* uniq.  Go ranges over a map in an unspecified order: each loop takes    *)
(* its keys in an order chosen freely among the permutations.              *)
(***************************************************************************)
Perms(S) ==
  {s \in [1..Cardinality(S) -> S] : \A x, y \in 1..Cardinality(S) : s[x] = s[y] => x = y}

\* the hash closure: name, lastState and the rendered stack written back to back
hash(g) == g.name \o g.lastState \o StackString(g.lastStack)

\* AppendToGroup that makes the group anew for every goroutine
AppendToFreshGroup(gm, g) ==
  LET id == hash(g)
  IN  [k \in DOMAIN gm \cup {id} |-> IF k = id THEN <<g>> ELSE gm[k]]

\* groupsMap[id] = append(groupsMap[id], g), after creating the empty group
AppendToGroup(gm, g) ==
  LET id == hash(g)
      old == IF id \in DOMAIN gm THEN gm[id] ELSE <<>>
  IN  [k \in DOMAIN gm \cup {id} |-> IF k = id THEN Append(old, g) ELSE gm[k]]

RECURSIVE GroupInOrder(_, _, _)
GroupInOrder(gs, order, n) ==
  IF n = 0 THEN <<>>
  ELSE AppendToGroup(GroupInOrder(gs, order, n - 1), gs[order[n]])

UniqGroup ==
  /\ pc = "group"
  /\ \E order \in Perms(DOMAIN unfinished) :
       groupsMap' = GroupInOrder(unfinished, order, Len(order))
  /\ pc' = "collect"
  /\ UNCHANGED <<events, goroutines, i, j, unfinished, groupsList>>

UniqCollect ==
  /\ pc = "collect"
  /\ \E order \in Perms(DOMAIN groupsMap) :
       groupsList' = [k \in 1..Len(order) |-> groupsMap[order[k]]]
  /\ pc' = "sort"
  /\ UNCHANGED <<events, goroutines, i, j, unfinished, groupsMap>>

\* Less with the comparison reversed
LessAscending(b, x, y) == Len(b[x]) < Len(b[y])

\* byLen.Less and byLen.Swap
Less(b, x, y) == Len(b[x]) > Len(b[y])

Swap(b, x, y) == [b EXCEPT ![x] = b[y], ![y] = b[x]]

\* sort.Sort on fewer than 12 elements is an insertion sort over Less and Swap
RECURSIVE InsertDown(_, _)
InsertDown(b, k) ==
  IF k > 1 /\ Less(b, k, k - 1) THEN InsertDown(Swap(b, k, k - 1), k - 1) ELSE b

RECURSIVE InsertionSort(_, _)
InsertionSort(b, n) ==
  IF n <= 1 THEN b ELSE InsertDown(InsertionSort(b, n - 1), n)

UniqSort ==
  /\ pc = "sort"
  /\ groupsList' = InsertionSort(groupsList, Len(groupsList))
  /\ pc' = "done"
  /\ UNCHANGED <<events, goroutines, i, j, unfinished, groupsMap>>

(***************************************************************************)
(* Inputs.                                                                 *)
(***************************************************************************)
Gs == {1, 2}

\* an EvGoEnd at the first tick of the trace and a later one
TsValues == {0, 1}

\* no stack, a frame with an unresolved function name, a resolved frame
Stacks == {NoStack, <<Frame("")>>, <<Frame("a")>>}

Links == {NilLink} \cup {LinkTo(g) : g \in Gs}

\* EvGoCreate carries the new goroutine's id in Args[0], the creator's stack and a link
CreateEvents ==
  {Event(EvGoCreate, g, 1, <<c>>, <<Frame("main")>>, link) :
     g \in Gs, c \in Gs, link \in Links}

\* EvGoEnd carries no arguments and no stack in the trace format
EndEvents == {Event(EvGoEnd, g, ts, <<>>, NoStack, NilLink) : g \in Gs, ts \in TsValues}

BlockEvents == {Event(EvGoBlock, g, 1, <<>>, stk, NilLink) : g \in Gs, stk \in Stacks}

Events == CreateEvents \cup EndEvents \cup BlockEvents

EventSeqs == UNION {[1..n -> Events] : n \in 0..MaxEvents}

\* goroutine records handed to unfinishedGs and uniq directly
UniqNames == {"m", "x"}

UniqStates == {states[EvGoBlock], states[EvGoBlockSend]}

UniqStacks == {<<Frame("x")>>, <<Frame("Sendx")>>}

UniqGoroutines(id) ==
  {[Goroutine(id, 0) EXCEPT !.name = n, !.lastState = st, !.lastStack = stk, !.destroy = d] :
     n \in UniqNames, st \in UniqStates, stk \in UniqStacks, d \in {0, 5}}

UniqMaps ==
  UNION {{m \in [1..n -> UNION {UniqGoroutines(id) : id \in 1..n}] :
            \A id \in 1..n : m[id].ID = id} : n \in 0..MaxGs}

Init ==
  /\ events \in EventSeqs
  /\ goroutines = <<>>
  /\ pc = "pass1"
  /\ i = 1
  /\ j = 1
  /\ unfinished = <<>>
  /\ groupsMap = <<>>
  /\ groupsList = <<>>

Next ==
  \/ Pass1Step
  \/ Pass1Panic
  \/ Pass1Done
  \/ Pass2Step
  \/ Pass2Done
  \/ UnfinishedGs
  \/ UniqGroup
  \/ UniqCollect
  \/ UniqSort

Spec == Init /\ [][Next]_vars

\* unfinishedGs and uniq on a map of goroutine records drawn from UniqMaps
InitUniq ==
  /\ events = <<>>
  /\ goroutines \in UniqMaps
  /\ pc = "filter"
  /\ i = 1
  /\ j = 1
  /\ unfinished = <<>>
  /\ groupsMap = <<>>
  /\ groupsList = <<>>

NextUniq ==
  \/ UnfinishedGs
  \/ UniqGroup
  \/ UniqCollect
  \/ UniqSort

SpecUniq == InitUniq /\ [][NextUniq]_vars

(***************************************************************************)
(* Vocabulary of the properties.                                           *)
(***************************************************************************)
\* events pass 1 has handled, events pass 2 has handled
Processed == i - 1

Linked == j - 1

\* events2gs has returned its mapping
Returned == pc \in {"filter", "group", "collect", "sort", "done"}

Max(S) == CHOOSE x \in S : \A y \in S : y <= x

Min(S) == CHOOSE x \in S : \A y \in S : x <= y

\* indexes among the first n events: owned by id, creating id, ending id, linking to id
OwnedIdx(id, n) == {k \in 1..n : events[k].G = id}

CreatedIdx(id, n) == {k \in 1..n : events[k].Type = EvGoCreate /\ events[k].Args[1] = id}

EndedIdx(id, n) == {k \in 1..n : events[k].Type = EvGoEnd /\ events[k].G = id}

LinkedIdx(id, n) ==
  {k \in 1..n : /\ events[k].Type = EvGoCreate
                /\ ~events[k].Link.nil
                /\ events[k].Link.G = id}

\* owned by id since the latest creation of id
OwnedSinceCreate(id, n) ==
  {k \in OwnedIdx(id, n) : CreatedIdx(id, n) # {} /\ k >= Max(CreatedIdx(id, n))}

OwnerIds == {events[k].G : k \in 1..Len(events)}

\* the goroutines of group k, and membership of two goroutines in one group
Members(k) == {groupsList[k][m] : m \in 1..Len(groupsList[k])}

SameGroup(a, b) == \E k \in 1..Len(groupsList) : a \in Members(k) /\ b \in Members(k)

SameTriple(a, b) ==
  /\ a.name = b.name
  /\ a.lastState = b.lastState
  /\ StackString(a.lastStack) = StackString(b.lastStack)

RECURSIVE SumLen(_, _)
SumLen(groups, n) == IF n = 0 THEN 0 ELSE SumLen(groups, n - 1) + Len(groups[n])

\* the positions <<k, m>> of the returned groups, and how many of them hold g
Positions ==
  UNION {{<<k, m>> : m \in 1..Len(groupsList[k])} : k \in 1..Len(groupsList)}

Occurrences(g) == Cardinality({km \in Positions : groupsList[km[1]][km[2]] = g})

(***************************************************************************)
(* C1: pass 1 never aborts on an EvGoEnd whose owner has no record; the    *)
(* pass runs to completion and every id of the returned mapping was named  *)
(* by a creation event.                                                    *)
(***************************************************************************)
C1_EndOfUnknownIsNoOp ==
  /\ pc # "panic"
  /\ Returned => \A id \in DOMAIN goroutines : CreatedIdx(id, Len(events)) # {}

(***************************************************************************)
(* C2: a goroutine of the returned mapping is in the output of             *)
(* unfinishedGs iff no EvGoEnd owned by its id occurs in the input.        *)
(***************************************************************************)
C2_UnfinishedIffNoEnd ==
  pc \in {"group", "collect", "sort", "done"} =>
    \A id \in DOMAIN goroutines :
      (id \in DOMAIN unfinished) <=> (EndedIdx(id, Len(events)) = {})

(***************************************************************************)
(* C3: two goroutines passed to uniq are in the same group iff their       *)
(* names, last states and rendered last stacks are equal.                  *)
(***************************************************************************)
C3_SameGroupIffSameTriple ==
  pc = "done" =>
    \A a, b \in DOMAIN unfinished :
      SameGroup(unfinished[a], unfinished[b]) <=> SameTriple(unfinished[a], unfinished[b])

(***************************************************************************)
(* C4 as stated: every id that owns an event is in the returned mapping,   *)
(* with the state and the stack of the last event it owns.                 *)
(***************************************************************************)
C4_EveryOwnerRecorded ==
  Returned =>
    \A id \in OwnerIds :
      LET last == events[Max(OwnedIdx(id, Len(events)))]
      IN  /\ id \in DOMAIN goroutines
          /\ goroutines[id].lastState = states[last.Type]
          /\ goroutines[id].lastStack = last.Stk

(***************************************************************************)
(* C4 amended: at every point of events2gs, an id that owns an event       *)
(* handled at or after the latest handled creation event naming it has a   *)
(* record with the state and stack of the last handled event it owns; a    *)
(* record whose id owns no such event has the empty state and stack; an id *)
(* named by no handled creation event has no record.                       *)
(***************************************************************************)
C4_RecordedOwnerHasLastEvent ==
  \A id \in OwnerIds \cup DOMAIN goroutines :
    LET owned == OwnedSinceCreate(id, Processed)
    IN  /\ owned # {} =>
             /\ id \in DOMAIN goroutines
             /\ goroutines[id].lastState = states[events[Max(owned)].Type]
             /\ goroutines[id].lastStack = events[Max(owned)].Stk
        /\ (id \in DOMAIN goroutines /\ owned = {}) =>
             /\ goroutines[id].lastState = ""
             /\ goroutines[id].lastStack = NoStack
        /\ CreatedIdx(id, Processed) = {} => id \notin DOMAIN goroutines

\* a recorded goroutine whose state was overwritten: it owns a creation and a later block
C4_Witness ==
  /\ pc = "done"
  /\ \E id \in DOMAIN goroutines :
       /\ Cardinality(OwnedSinceCreate(id, Len(events))) >= 2
       /\ goroutines[id].lastState = "EvGoBlock"
       /\ goroutines[id].lastStack # NoStack
  /\ \E id \in OwnerIds : id \notin DOMAIN goroutines

C6_SortedByDescendingSize ==
  pc = "done" =>
    \A k \in 1..(Len(groupsList) - 1) : Len(groupsList[k]) >= Len(groupsList[k + 1])

\* uniq has returned groups of different sizes
C6_Witness ==
  /\ pc = "done"
  /\ Len(groupsList) >= 2
  /\ Len(groupsList[1]) > Len(groupsList[Len(groupsList)])

(***************************************************************************)
(* C7: uniq returns a partition of its input: no group is empty, every     *)
(* goroutine of the input occurs exactly once, every member comes from the *)
(* input, the sizes sum to the size of the input, an empty input gives no  *)
(* group, and after unfinishedGs no member has destroy # 0.                *)
(***************************************************************************)
C7_GroupsPartitionInput ==
  pc = "done" =>
    /\ \A k \in 1..Len(groupsList) : Len(groupsList[k]) > 0
    /\ \A id \in DOMAIN unfinished : Occurrences(unfinished[id]) = 1
    /\ \A k \in 1..Len(groupsList) :
         Members(k) \subseteq {unfinished[id] : id \in DOMAIN unfinished}
    /\ SumLen(groupsList, Len(groupsList)) = Cardinality(DOMAIN unfinished)
    /\ DOMAIN unfinished = {} => groupsList = <<>>
    /\ \A k \in 1..Len(groupsList) : \A g \in Members(k) : g.destroy = 0
    /\ \A id \in DOMAIN goroutines :
         goroutines[id].destroy = 0 => Occurrences(goroutines[id]) = 1

\* uniq has returned a group with several members and a finished goroutine was
\* filtered out
C7_Witness ==
  /\ pc = "done"
  /\ \E k \in 1..Len(groupsList) : Len(groupsList[k]) >= 2
  /\ \E id \in DOMAIN goroutines : goroutines[id].destroy # 0

(***************************************************************************)
(* C8: the name of a goroutine is the function name of frame 0 of the      *)
(* first event it owns that has a stack, also when that name is empty and  *)
(* when the id is created a second time.  Stated for the ids whose first   *)
(* creation event comes no later than the first event they own.            *)
(***************************************************************************)
C8_NameIsFirstFrame ==
  Returned =>
    \A id \in DOMAIN goroutines :
      LET n == Len(events)
          stacked == {k \in OwnedIdx(id, n) : Len(events[k].Stk) > 0}
      IN  (stacked # {} /\ Min(CreatedIdx(id, n)) <= Min(OwnedIdx(id, n))) =>
            goroutines[id].name = events[Min(stacked)].Stk[1].Fn

(***************************************************************************)
(* C9 as stated: every record of the returned mapping has an id that owns  *)
(* at least one event.                                                     *)
(***************************************************************************)
C9_EveryRecordOwnsAnEvent ==
  Returned => \A id \in DOMAIN goroutines : OwnedIdx(id, Len(events)) # {}

(***************************************************************************)
(* C9 amended: at every point of events2gs, every record has an id that is *)
(* the first argument of a handled creation event, and every such id has a *)
(* record; the id need not own any event.                                  *)
(***************************************************************************)
C9_EveryRecordWasCreated ==
  /\ \A id \in DOMAIN goroutines :
       CreatedIdx(id, Processed) # {} /\ goroutines[id].ID = id
  /\ \A k \in 1..Processed :
       events[k].Type = EvGoCreate => events[k].Args[1] \in DOMAIN goroutines

\* a goroutine named by a creation event that never owned an event is in the mapping
C9_Witness ==
  /\ pc = "done"
  /\ \E id \in DOMAIN goroutines :
       /\ OwnedIdx(id, Len(events)) = {}
       /\ \E k \in CreatedIdx(id, Len(events)) : events[k].G # id

(***************************************************************************)
(* C10: no step of pass 1 writes a parent field, and in pass 2 a parent    *)
(* linkage that is set is not changed by a later step.                     *)
(***************************************************************************)
C10_ParentWrittenOnce ==
  [][/\ pc = "pass1" =>
          \A id \in DOMAIN goroutines' :
            goroutines'[id].ParentID = 0 /\ goroutines'[id].parentStack = NoStack
     /\ pc = "pass2" =>
          \A id \in DOMAIN goroutines :
            (goroutines[id].ParentID # 0 \/ goroutines[id].parentStack # NoStack) =>
              /\ goroutines'[id].ParentID = goroutines[id].ParentID
              /\ goroutines'[id].parentStack = goroutines[id].parentStack]_vars

====
